---- MODULE Spec2Model ----
(***************************************************************************)
(* ts-http-impl: a minimal HTTP/1.1 server over raw sockets                *)
(* (src/app/main.ts, the version with gzip support, lines 216-459).        *)
(*                                                                         *)
(* Text is modelled by TLA+ strings, one character per byte (ASCII only),  *)
(* so Len is both String.length and Buffer.byteLength.  A JavaScript       *)
(* value that may be undefined is a tuple: <<>> is undefined, <<v>> is v.  *)
(* A JavaScript Map or plain object is a sequence of <<key, value>> pairs  *)
(* in insertion order.                                                     *)
(***************************************************************************)
EXTENDS Integers, Sequences, FiniteSets, TLC

----------------------------------------------------------------------------
(* Strings                                                                 *)

Ch(s, i) == SubSeq(s, i, i)

Undefined == <<>>

Some(v) == <<v>>

UpperCase == "ABCDEFGHIJKLMNOPQRSTUVWXYZ"

LowerCase == "abcdefghijklmnopqrstuvwxyz"

Digits == "0123456789"

CharsOf(s) == {Ch(s, i) : i \in 1..Len(s)}

\* \w of a JavaScript regular expression: [A-Za-z0-9_]
WordChars == CharsOf(UpperCase) \cup CharsOf(LowerCase) \cup CharsOf(Digits) \cup {"_"}

\* The ASCII characters \s of a JavaScript regular expression matches and
\* String.prototype.trim strips: space, tab, line feed, carriage return, form
\* feed and the vertical tab U+000B (written as the character itself, for
\* which a TLA+ string has no escape)
WhiteSpace == {" ", "\t", "\n", "\r", "\f", ""}

\* the line terminators "." does not match
LineTerminators == {"\n", "\r"}

MinOf(S) == CHOOSE x \in S : \A y \in S : x <= y

\* String.prototype.indexOf, 1-based, 0 when absent
IndexOf(s, sep) ==
    LET I == {i \in 1..(Len(s) - Len(sep) + 1) : SubSeq(s, i, i + Len(sep) - 1) = sep}
    IN  IF I = {} THEN 0 ELSE MinOf(I)

\* String.prototype.split with a non-empty separator string
RECURSIVE Split(_, _)
Split(s, sep) ==
    LET i == IndexOf(s, sep)
    IN  IF i = 0 THEN <<s>>
        ELSE <<SubSeq(s, 1, i - 1)>> \o Split(SubSeq(s, i + Len(sep), Len(s)), sep)

\* String.prototype.trim
RECURSIVE Trim(_)
Trim(s) ==
    IF s = "" THEN s
    ELSE IF Ch(s, 1) \in WhiteSpace THEN Trim(SubSeq(s, 2, Len(s)))
    ELSE IF Ch(s, Len(s)) \in WhiteSpace THEN Trim(SubSeq(s, 1, Len(s) - 1))
    ELSE s

ToLowerChar(c) ==
    LET i == IndexOf(UpperCase, c) IN IF i = 0 THEN c ELSE Ch(LowerCase, i)

\* String.prototype.toLowerCase
RECURSIVE ToLowerCase(_)
ToLowerCase(s) ==
    IF s = "" THEN s ELSE ToLowerChar(Ch(s, 1)) \o ToLowerCase(SubSeq(s, 2, Len(s)))

\* String.prototype.replace with a string pattern: the first occurrence only
ReplaceFirst(s, pat, by) ==
    LET i == IndexOf(s, pat)
    IN  IF i = 0 THEN s
        ELSE SubSeq(s, 1, i - 1) \o by \o SubSeq(s, i + Len(pat), Len(s))

\* Number.prototype.toString for a natural number
RECURSIVE NumberToString(_)
NumberToString(n) ==
    IF n < 10 THEN Ch(Digits, n + 1)
    ELSE NumberToString(n \div 10) \o Ch(Digits, (n % 10) + 1)

----------------------------------------------------------------------------
(* Maps and objects in insertion order                                     *)

MapHas(m, k) == \E i \in 1..Len(m) : m[i][1] = k

MapIndex(m, k) == MinOf({i \in 1..Len(m) : m[i][1] = k})

\* Map.prototype.get, obj[k]: undefined when the key is absent
MapGet(m, k) == IF MapHas(m, k) THEN Some(m[MapIndex(m, k)][2]) ELSE Undefined

MapKeys(m) == [i \in 1..Len(m) |-> m[i][1]]

\* Map.prototype.set: a new key is appended, an existing key keeps its place
\* and takes the new value
MapSet(m, k, v) ==
    IF MapHas(m, k) THEN [m EXCEPT ![MapIndex(m, k)] = <<k, v>>]
    ELSE Append(m, <<k, v>>)

\* the place of the digit c among the digits
DigitValue(c) == CHOOSE i \in 0..9 : Ch(Digits, i + 1) = c

\* the strings of digits a and b, of one length, from position i on: a comes
\* before b
RECURSIVE DigitsBefore(_, _, _)
DigitsBefore(a, b, i) ==
    IF i > Len(a) THEN FALSE
    ELSE IF Ch(a, i) # Ch(b, i) THEN DigitValue(Ch(a, i)) < DigitValue(Ch(b, i))
    ELSE DigitsBefore(a, b, i + 1)

\* the number written a is smaller than the number written b (no leading zero)
NumberBefore(a, b) == Len(a) < Len(b) \/ (Len(a) = Len(b) /\ DigitsBefore(a, b, 1))

\* A property key that is an array index: the canonical text of an integer
\* from 0 to 2^32 - 2.  An object lists these keys first, in ascending order.
IsArrayIndex(k) ==
    /\ k # ""
    /\ CharsOf(k) \subseteq CharsOf(Digits)
    /\ Len(k) = 1 \/ Ch(k, 1) # "0"
    /\ NumberBefore(k, "4294967295")

\* The own property k of the object obj is created or redefined with the
\* value v ({...obj, [k]: v}): an existing key keeps its place, a new array
\* index goes to its place among the array indices, which come first, any
\* other new key goes to the end.
ObjectDefine(obj, k, v) ==
    IF MapHas(obj, k) THEN MapSet(obj, k, v)
    ELSE LET n == IF IsArrayIndex(k)
                  THEN Cardinality({i \in 1..Len(obj) : /\ IsArrayIndex(obj[i][1])
                                                        /\ NumberBefore(obj[i][1], k)})
                  ELSE Len(obj)
         IN  SubSeq(obj, 1, n) \o <<(<<k, v>>)>> \o SubSeq(obj, n + 1, Len(obj))

\* obj[k] = v for a string v, on an object that inherits from
\* Object.prototype: the key "__proto__" is the inherited accessor, whose
\* setter ignores a value that is neither an object nor null and creates no
\* property; any other key is created or redefined.
ObjectAssign(obj, k, v) == IF k = "__proto__" THEN obj ELSE ObjectDefine(obj, k, v)

----------------------------------------------------------------------------
(* Route patterns: route.replace(/:[^\s/]+/g, '([\\w-]+)') between ^ and $ *)

\* the characters [^\s/] of a parameter name
IsParamChar(c) == c \notin WhiteSpace /\ c # "/"

\* the length of the longest run of [^\s/] starting at position i of route
RECURSIVE ParamRun(_, _)
ParamRun(route, i) ==
    IF i <= Len(route) /\ IsParamChar(Ch(route, i)) THEN 1 + ParamRun(route, i + 1)
    ELSE 0

\* The characters that are operators of a regular expression when they stand
\* in a route: quantifiers, groups, classes, alternation, assertions, escape
RegexOperators == CharsOf("$()*+?[\\^|{")

\* The regular expression a literal character of the route stands for.  The
\* routes modelled hold none of the operators, for which this has no value:
\* new RegExp is not modelled for them (it may throw a SyntaxError, or
\* compile the route into another pattern).
RegexAtom(c) == CASE c \notin RegexOperators -> <<"lit", c>>

\* The compiled pattern from position i on: <<"grp", name>> for each match of
\* /:[^\s/]+/ (a colon and the longest run after it), <<"lit", c>> for any
\* other character.
RECURSIVE RouteTokens(_, _)
RouteTokens(route, i) ==
    IF i > Len(route) THEN <<>>
    ELSE IF Ch(route, i) = ":" /\ ParamRun(route, i + 1) > 0
         THEN LET n == ParamRun(route, i + 1)
              IN  <<(<<"grp", SubSeq(route, i + 1, i + n)>>)>> \o RouteTokens(route, i + n + 1)
         ELSE <<RegexAtom(Ch(route, i))>> \o RouteTokens(route, i + 1)

\* new RegExp(`^${route.replace(/:[^\s/]+/g, '([\\w-]+)')}$`)
RouteRegex(route) == RouteTokens(route, 1)

\* route.match(/:[^\s/]+/g) || [], each name with its colon stripped
\* (paramName.substring(1))
ParamNames(route) ==
    LET toks == RouteRegex(route)
        G == SelectSeq(toks, LAMBDA t : t[1] = "grp")
    IN  [i \in 1..Len(G) |-> G[i][2]]

\* A literal character of the route is a regular expression of its own: "."
\* matches any character but a line terminator, a character that is no
\* operator matches itself.
LitMatches(c, x) ==
    CASE c = "." -> x \notin LineTerminators
      [] c # "." /\ c \notin RegexOperators -> x = c

\* the length of the longest run of [\w-] starting at position i of s
RECURSIVE WordRun(_, _)
WordRun(s, i) ==
    IF i <= Len(s) /\ (Ch(s, i) \in WordChars \/ Ch(s, i) = "-") THEN 1 + WordRun(s, i + 1)
    ELSE 0

\* s.match(regex) from token k and position i on: <<>> for null, else <<caps>>
\* with caps the captured groups in order.  A group is always followed by the
\* end, by "/" or by white space (the parameter name took everything else), so
\* the greedy run of [\w-]+ is the only way the group can match.
RECURSIVE MatchFrom(_, _, _, _)
MatchFrom(toks, k, s, i) ==
    IF k > Len(toks) THEN (IF i = Len(s) + 1 THEN Some(<<>>) ELSE Undefined)
    ELSE IF toks[k][1] = "lit"
         THEN IF i <= Len(s) /\ LitMatches(toks[k][2], Ch(s, i))
              THEN MatchFrom(toks, k + 1, s, i + 1)
              ELSE Undefined
         ELSE LET n == WordRun(s, i)
                  rest == MatchFrom(toks, k + 1, s, i + n)
              IN  IF n = 0 \/ rest = Undefined THEN Undefined
                  ELSE Some(<<SubSeq(s, i, i + n - 1)>> \o rest[1])

\* this.endpoint.match(routeRegex): <<>> for null, else <<captures>>
RouteMatch(route, path) == MatchFrom(RouteRegex(route), 1, path, 1)

----------------------------------------------------------------------------
(* Bounds and inputs                                                       *)

\* the number of get and post calls made before listen
MaxRoutes == 2

\* The registrations tried: the application's five, and variants that repeat
\* a pattern with another handler, overlap another pattern, hold a ".", or
\* name a parameter __proto__
GetRoutes ==
    { <<"/", "root">>, <<"/echo/:str", "echo">>, <<"/user-agent", "userAgent">>,
      <<"/files/:filename", "getFile">>,
      <<"/echo/:str", "userAgent">>, <<"/files/:str", "echo">>,
      <<"/:str/:filename", "echo">>, <<"/a.b", "root">>, <<"/:__proto__", "echo">> }

PostRoutes == { <<"/files/:filename", "postFile">>, <<"/", "root">> }

Urls == {r[1] : r \in GetRoutes \cup PostRoutes}

RequestLine(method, path) == method \o " " \o path \o " HTTP/1.1\r\n"

Paths == {"/", "/echo/abc", "/echo/:str", "/user-agent", "/files/a", "/axb", "/a.b", "/nope"}

HeaderBlocks ==
    { "", "User-Agent: curl/8\r\n", "Accept-Encoding: gzip\r\n",
      "Accept-Encoding: identity\r\n", "Accept-Encoding: br, gzip\r\n",
      "Accept-Encoding: gzip:x\r\n", "Host: localhost:4221\r\n",
      "X-Forwarded-For: a\r\n", "NoColon\r\n" }

\* requests without headers, with and without a body
RoutingInputs ==
    {RequestLine(m, p) \o "\r\n" \o b : m \in {"GET", "POST"}, p \in Paths, b \in {"", "hi"}}

\* GET requests with one header line
HeaderInputs ==
    {RequestLine("GET", p) \o h \o "\r\n" :
        p \in {"/", "/echo/abc", "/user-agent", "/files/a", "/nope"}, h \in HeaderBlocks}

\* requests that are no well-formed HTTP, and one with a body of two lines
MalformedInputs ==
    { "PUT / HTTP/1.1\r\n\r\n", "GET", "GET /nope", "GET / HTTP/1.1",
      "POST /files/a HTTP/1.1\r\n\r\na\r\nb" }

DataInputs == RoutingInputs \cup HeaderInputs \cup MalformedInputs

\* the inputs whose method is POST: the only ones that may write a file
PostInputs == {d \in DataInputs : Split(d, " ")[1] = "POST"}

\* what the served directory may hold when the server starts: nothing, or
\* the file a with the bytes of "hi"
InitialFiles == { <<>>, <<(<<"a", <<104, 105>> >>)>> }

\* the connections open to the server
Connections == {"c1", "c2"}

\* the number of writes the clients make in all
MaxEvents == 3

\* requests answered with a head and a body, with a head alone (a file is
\* written), with a file read and compressed, and one that throws
ConnInputs ==
    { "GET /echo/abc HTTP/1.1\r\n\r\n",
      "POST /files/a HTTP/1.1\r\n\r\nhi",
      "GET /files/a HTTP/1.1\r\nAccept-Encoding: gzip\r\n\r\n",
      "PUT / HTTP/1.1\r\n\r\n" }

\* the bytes of the writes q, one after the other
RECURSIVE Concat(_)
Concat(q) == IF q = <<>> THEN "" ELSE Head(q) \o Concat(Tail(q))

\* the writes of the clients that may arrive together: up to n of them
RECURSIVE Streams(_)
Streams(n) ==
    IF n = 0 THEN {<<>>}
    ELSE Streams(n - 1) \cup {Append(q, d) : q \in Streams(n - 1), d \in ConnInputs}

\* the bytes a data event of a connection may hold
StreamInputs == {Concat(q) : q \in Streams(MaxEvents) \ {<<>>}}

----------------------------------------------------------------------------
(* RequestBuilder                                                          *)

\* The reduce over the header lines.  v.split(':')[1] is undefined for a line
\* without a colon and .trim() on it throws a TypeError: Undefined stands
\* for that throw, Some(headers) for the object built.
RECURSIVE ReduceHeaders(_, _, _)
ReduceHeaders(lines, i, acc) ==
    IF i > Len(lines) THEN Some(acc)
    ELSE LET parts == Split(lines[i], ":")
         IN  IF Len(parts) < 2 THEN Undefined
             ELSE ReduceHeaders(lines, i + 1,
                      ObjectDefine(acc, ToLowerCase(ReplaceFirst(parts[1], "-", "_")),
                                   Trim(parts[2])))

\* specialCharSplit.slice(1, specialCharSplit.length - 2)
HeaderLines(specialCharSplit) == SubSeq(specialCharSplit, 2, Len(specialCharSplit) - 2)

\* paramNames.forEach((paramName, idx) => this.params[paramName.substring(1)] = match[idx + 1])
RECURSIVE FillParams(_, _, _, _)
FillParams(names, caps, idx, params) ==
    IF idx > Len(names) THEN params
    ELSE FillParams(names, caps, idx + 1, ObjectAssign(params, names[idx], caps[idx]))

\* The part of the constructor before the loop over the routes: the method,
\* the endpoint (undefined when the text holds no space), the headers
\* (Undefined when the reduce throws) and the body.
RequestHead(req) ==
    LET reqBody == Split(req, " ")
        specialCharSplit == Split(req, "\r\n")
    IN  [method   |-> reqBody[1],
         endpoint |-> IF Len(reqBody) >= 2 THEN Some(reqBody[2]) ELSE Undefined,
         headers  |-> ReduceHeaders(HeaderLines(specialCharSplit), 1, <<>>),
         body     |-> specialCharSplit[Len(specialCharSplit)]]

\* RequestHead of each input, and RouteMatch of each route and endpoint of the
\* model, evaluated once
HeadOfInput == [d \in DataInputs \cup StreamInputs |-> RequestHead(d)] @@ <<>>

InputEndpoints ==
    {o[1] : o \in {HeadOfInput[d].endpoint : d \in DOMAIN HeadOfInput} \ {Undefined}}

MatchOfInput == [r \in Urls |-> [e \in InputEndpoints |-> RouteMatch(r, e)] @@ <<>>] @@ <<>>

ParamNamesOfUrl == [r \in Urls |-> ParamNames(r)] @@ <<>>

\* The loop over the registered routes from the i-th on, in the order of the
\* Map: the first route whose regex matches the endpoint sets the params and
\* replaces the endpoint, and ends the loop.
RECURSIVE RouteLoop(_, _, _)
RouteLoop(routes, i, endpoint) ==
    IF i > Len(routes) THEN [endpoint |-> Some(endpoint), params |-> <<>>]
    ELSE LET route == routes[i][1]
             match == MatchOfInput[route][endpoint]
         IN  IF match # Undefined
             THEN [endpoint |-> Some(route),
                   params   |-> FillParams(ParamNamesOfUrl[route], match[1], 1, <<>>)]
             ELSE RouteLoop(routes, i + 1, endpoint)

\* The request build() returns for the head parsed and the outcome r of the
\* loop over the routes
BuiltRequest(head, r) ==
    [method |-> head.method, endpoint |-> r.endpoint, params |-> r.params,
     headers |-> head.headers[1], body |-> head.body]

\* The constructor from the parsed head on.  It throws (Undefined) on a header
\* line without a colon, on registeredRoutes being undefined (for .. of
\* undefined) and on this.endpoint.match when the endpoint is undefined and a
\* route is registered.
BuildFromHead(head, registeredRoutes) ==
    IF head.headers = Undefined THEN Undefined
    ELSE IF registeredRoutes = Undefined THEN Undefined
    ELSE IF head.endpoint = Undefined
         THEN IF Len(registeredRoutes[1]) > 0 THEN Undefined
              ELSE Some(BuiltRequest(head, [endpoint |-> Undefined, params |-> <<>>]))
         ELSE Some(BuiltRequest(head, RouteLoop(registeredRoutes[1], 1, head.endpoint[1])))

\* new RequestBuilder(req, registeredRoutes).build(): Undefined when the
\* constructor throws, else Some(request)
RequestBuilder(req, registeredRoutes) == BuildFromHead(HeadOfInput[req], registeredRoutes)

----------------------------------------------------------------------------
(* HttpRes                                                                 *)

ReasonPhrases == <<(<<"200", "OK">>), (<<"201", "Created">>), (<<"404", "Not Found">>)>>

\* new HttpRes(socket, encode): what send writes is collected in writes,
\* the arguments of the send calls in sent, what it logs in log
HttpRes(encode) ==
    [statusCode |-> "404", headers |-> <<>>, encode |-> encode,
     writes |-> <<>>, sent |-> <<>>, log |-> <<>>]

\* A variant of status that keeps the code of an earlier call
StatusKeepFirst(res, statusCode) ==
    IF res.statusCode = "404" THEN [res EXCEPT !.statusCode = statusCode] ELSE res

\* res.status(statusCode)
Status(res, statusCode) == [res EXCEPT !.statusCode = statusCode]

Header(res, k, v) == [res EXCEPT !.headers = MapSet(@, k, v)]

\* The data handed to send: nothing, a string, a Buffer (the sequence of its
\* bytes), or an object (null too), which stands here as the text
\* JSON.stringify gives for it
NoData == [type |-> "undefined", val |-> ""]

Obj(jsonData) == [type |-> "object", val |-> jsonData]

Str(s) == [type |-> "string", val |-> s]

Buf(b) == [type |-> "buffer", val |-> b]

\* The printable characters of ASCII in the order of their codes, from 32 to
\* 95 and from 97 to 126 (a TLA+ string cannot hold the character 96)
AsciiLow == " !\"#$%&'()*+,-./0123456789:;<=>?@ABCDEFGHIJKLMNOPQRSTUVWXYZ[\\]^_"

AsciiHigh == "abcdefghijklmnopqrstuvwxyz{|}~"

PlaceIn(s, c) == CHOOSE i \in 1..Len(s) : Ch(s, i) = c

\* the characters of the texts modelled, all of them ASCII
AsciiChars == CharsOf(AsciiLow) \cup CharsOf(AsciiHigh) \cup {"\t", "\n", "\f", "\r"}

\* the code of each of them
CharCodes ==
    [c \in AsciiChars |->
        CASE c \in CharsOf(AsciiLow)  -> 31 + PlaceIn(AsciiLow, c)
          [] c \in CharsOf(AsciiHigh) -> 96 + PlaceIn(AsciiHigh, c)
          [] c = "\t" -> 9
          [] c = "\n" -> 10
          [] c = "\f" -> 12
          [] c = "\r" -> 13] @@ <<>>

\* the code of a character, and no value for a character that is not ASCII
CharCode(c) == CharCodes[c]

\* Buffer.from(s): the bytes of the text s in UTF-8, one byte for each
\* character of ASCII
RECURSIVE Utf8Bytes(_)
Utf8Bytes(s) ==
    IF s = "" THEN <<>> ELSE <<CharCode(Ch(s, 1))>> \o Utf8Bytes(SubSeq(s, 2, Len(s)))

\* Buffer.byteLength(s)
ByteLength(s) == Len(Utf8Bytes(s))

\* the bytes of a body, string or Buffer
BodyBytes(body) == IF body.type = "buffer" THEN body.val ELSE Utf8Bytes(body.val)

\* the bits of the byte b, lowest first
ByteBits(b) ==
    << b % 2, (b \div 2) % 2, (b \div 4) % 2, (b \div 8) % 2,
       (b \div 16) % 2, (b \div 32) % 2, (b \div 64) % 2, (b \div 128) % 2 >>

\* the number whose bits, lowest first, are bits
RECURSIVE BitsToNumber(_)
BitsToNumber(bits) ==
    IF bits = <<>> THEN 0 ELSE Head(bits) + 2 * BitsToNumber(Tail(bits))

\* the bytes that hold the bits, eight to a byte, lowest first
RECURSIVE BitsToBytes(_)
BitsToBytes(bits) ==
    IF Len(bits) < 8 THEN <<>>
    ELSE <<BitsToNumber(SubSeq(bits, 1, 8))>> \o BitsToBytes(SubSeq(bits, 9, Len(bits)))

\* the n-bit code, highest bit first, as a Huffman code goes into the stream
RECURSIVE CodeBits(_, _)
CodeBits(code, n) ==
    IF n = 0 THEN <<>> ELSE CodeBits(code \div 2, n - 1) \o <<code % 2>>

RECURSIVE Repeat(_, _)
Repeat(bit, n) == IF n = 0 THEN <<>> ELSE <<bit>> \o Repeat(bit, n - 1)

Zeros(n) == Repeat(0, n)

\* the bit of weight p of the exclusive or of the bytes a and b
XorBit(a, b, p) == (((a \div p) + (b \div p)) % 2) * p

\* the exclusive or of two bytes
XorByte(a, b) ==
    XorBit(a, b, 1) + XorBit(a, b, 2) + XorBit(a, b, 4) + XorBit(a, b, 8)
        + XorBit(a, b, 16) + XorBit(a, b, 32) + XorBit(a, b, 64) + XorBit(a, b, 128)

\* the exclusive or of two words of 32 bits, each held as four bytes, lowest
\* first
Xor32(x, y) ==
    <<XorByte(x[1], y[1]), XorByte(x[2], y[2]), XorByte(x[3], y[3]), XorByte(x[4], y[4])>>

\* the word x shifted right by one bit
ShiftRight(x) ==
    << (x[1] \div 2) + (x[2] % 2) * 128, (x[2] \div 2) + (x[3] % 2) * 128,
       (x[3] \div 2) + (x[4] % 2) * 128, x[4] \div 2 >>

\* The CRC-32 of gzip (RFC 1952): the polynomial EDB88320, the register
\* shifted right once for each bit
CrcPolynomial == <<32, 131, 184, 237>>

CrcShift(crc) ==
    IF crc[1] % 2 = 1 THEN Xor32(ShiftRight(crc), CrcPolynomial) ELSE ShiftRight(crc)

RECURSIVE CrcShifts(_, _)
CrcShifts(crc, n) == IF n = 0 THEN crc ELSE CrcShift(CrcShifts(crc, n - 1))

\* the table of the CRC of each byte, as zlib computes it once
CrcTable == [n \in 0..255 |-> CrcShifts(<<n, 0, 0, 0>>, 8)] @@ <<>>

\* the register after one more byte: the table entry of its low byte xor the
\* byte, xor the register shifted right by eight
CrcUpdate(crc, b) == Xor32(CrcTable[XorByte(crc[1], b)], <<crc[2], crc[3], crc[4], 0>>)

\* the registers before the first of the bytes and after each of the first n
RECURSIVE CrcRegisters(_, _)
CrcRegisters(bytes, n) ==
    IF n = 0 THEN << <<255, 255, 255, 255>> >>
    ELSE LET regs == CrcRegisters(bytes, n - 1)
         IN  Append(regs, CrcUpdate(regs[n], bytes[n]))

\* the CRC-32 of the bytes, as four bytes, lowest first: the last register,
\* inverted
Crc32(bytes) ==
    Xor32(CrcRegisters(bytes, Len(bytes))[Len(bytes) + 1], <<255, 255, 255, 255>>)

\* The texts sent compressed here.  For each of them zlib.gzipSync (level 6)
\* was measured to give the ten bytes of the gzip header, one deflate block
\* with fixed Huffman codes holding the text as literals, and the eight
\* bytes of the trailer.  zlib codes other texts otherwise: a text in which
\* three bytes repeat is shortened by a back-reference, a longer text over
\* few letters gets a dynamic code.
LiteralTexts ==
    { "", "a", "ab", "abc", "h", "hi", "echo", "files", "curl/8", "localhost", "gzip",
      "identity", "null", "{\"a\":1}", "File not found",
      "No user-agent header found.", "Something went terrible wrong" }

LiteralBytes == {Utf8Bytes(t) : t \in LiteralTexts}

\* the gzip header zlib writes on Linux: magic 1f 8b, method 8 (deflate), no
\* flags, no time, no extra flags, operating system 3
GzipHeader == <<31, 139, 8, 0, 0, 0, 0, 0, 0, 3>>

\* the fixed Huffman code of a literal byte (RFC 1951, 3.2.6)
LiteralCode(b) == IF b < 144 THEN CodeBits(48 + b, 8) ELSE CodeBits(400 + (b - 144), 9)

RECURSIVE LiteralCodes(_, _)
LiteralCodes(bytes, i) ==
    IF i > Len(bytes) THEN <<>> ELSE LiteralCode(bytes[i]) \o LiteralCodes(bytes, i + 1)

\* the bits, and zeros up to the end of the byte
PadToByte(bits) == bits \o Zeros((8 - (Len(bits) % 8)) % 8)

\* one final block with fixed codes: the bits 1 (final) and 1, 0 (type 01),
\* the codes of the literals, of eight or nine bits each, the code of the
\* end of the block (seven zeros), zeros up to the end of the byte
FixedBlock(bytes) == PadToByte(<<1, 1, 0>> \o LiteralCodes(bytes, 1) \o CodeBits(0, 7))

\* The deflate stream of zlib for the bytes of a text of LiteralTexts, and
\* no value for any other bytes
Deflate(bytes) == CASE bytes \in LiteralBytes -> BitsToBytes(FixedBlock(bytes))

\* the CRC-32 of the bytes and their number, four bytes each, lowest first
GzipTrailer(bytes) ==
    Crc32(bytes) \o <<Len(bytes) % 256, (Len(bytes) \div 256) % 256, 0, 0>>

GzipOfLiteral ==
    [bytes \in LiteralBytes |-> GzipHeader \o Deflate(bytes) \o GzipTrailer(bytes)] @@ <<>>

\* zlib.gzipSync(body) when it returns: the bytes of the gzip member
GzipSync(bytes) == GzipOfLiteral[bytes]

\* Array.from(this.headers).map(([a, b]) => `${a}: ${b}\r\n`).join("")
RECURSIVE JoinHeaders(_, _)
JoinHeaders(headers, i) ==
    IF i > Len(headers) THEN ""
    ELSE headers[i][1] \o ": " \o headers[i][2] \o "\r\n" \o JoinHeaders(headers, i + 1)

\* The automatic headers of send for the type of the data
TypedHeaders(res, data) ==
    IF data.type = "object"
    THEN Header(Header(res, "Content-Type", "application/json"),
                "Content-Length", NumberToString(ByteLength(data.val)))
    ELSE IF data.type = "string"
    THEN Header(Header(res, "Content-Type", "text/plain"),
                "Content-Length", NumberToString(ByteLength(data.val)))
    ELSE IF data.type = "buffer"
    THEN Header(Header(res, "Content-Type", "application/octet-stream"),
                "Content-Length", NumberToString(Len(data.val)))
    ELSE res

\* A variant of EncodeBody that leaves the Content-Length of the uncompressed
\* body in place
EncodeBodyKeepLength(res, body, gzipOk) ==
    IF res.encode
    THEN IF gzipOk
         THEN [res  |-> Header(res, "Content-Encoding", "gzip"),
               body |-> Buf(GzipSync(BodyBytes(body)))]
         ELSE [res |-> [res EXCEPT !.log = Append(@, "Failed to compress")], body |-> body]
    ELSE [res |-> res, body |-> body]

\* if (this.encode) try { ... } catch { ... }: the body becomes its gzip (a
\* Buffer), with Content-Encoding and the Content-Length of the compressed
\* bytes; when zlib.gzipSync throws (gzipOk is FALSE: no memory for it), the
\* body and the headers stay as they are and the failure is logged.
EncodeBody(res, body, gzipOk) ==
    IF res.encode
    THEN IF gzipOk
         THEN [res  |-> Header(Header(res, "Content-Encoding", "gzip"),
                               "Content-Length",
                               NumberToString(Len(GzipSync(BodyBytes(body))))),
               body |-> Buf(GzipSync(BodyBytes(body)))]
         ELSE [res |-> [res EXCEPT !.log = Append(@, "Failed to compress")], body |-> body]
    ELSE [res |-> res, body |-> body]

\* if (body): a Buffer is an object and always truthy, a string only when
\* it is not empty
Truthy(body) == body.type = "buffer" \/ (body.type = "string" /\ body.val # "")

\* `HTTP/1.1 ${this.statusCode} ${ReasonPhrases[this.statusCode]}\r\n`, the
\* headers and the blank line
ResponseHead(r) ==
    "HTTP/1.1 " \o r.statusCode \o " " \o MapGet(ReasonPhrases, r.statusCode)[1]
        \o "\r\n" \o JoinHeaders(r.headers, 1) \o "\r\n"

\* this.socket.write(response); if (body) this.socket.write(body): each
\* chunk is the string or the Buffer handed to socket.write
WriteResponse(r, body, data) ==
    [r EXCEPT !.writes = @ \o <<Str(ResponseHead(r))>>
                           \o (IF Truthy(body) THEN <<body>> ELSE <<>>),
              !.sent = Append(@, data)]

WriteEncoded(enc, data) == WriteResponse(enc.res, enc.body, data)

\* res.send(data): the response with the headers send has set and the
\* socket.write calls appended to writes
Send(res, data, gzipOk) ==
    WriteEncoded(EncodeBody(TypedHeaders(res, data),
                            IF data.type = "buffer" THEN data ELSE Str(data.val),
                            gzipOk), data)

\* A call a handler makes on its response: res.status(code), res.header(k, v)
\* or res.send(data)
StatusCall(code) == [op |-> "status", a |-> code, b |-> "", data |-> NoData]

HeaderCall(k, v) == [op |-> "header", a |-> k, b |-> v, data |-> NoData]

SendCall(data) == [op |-> "send", a |-> "", b |-> "", data |-> data]

\* The response after the calls from the i-th on
RECURSIVE RunCalls(_, _, _, _)
RunCalls(res, script, i, gzipOk) ==
    IF i > Len(script) THEN res
    ELSE IF script[i].op = "status"
    THEN RunCalls(Status(res, script[i].a), script, i + 1, gzipOk)
    ELSE IF script[i].op = "header"
    THEN RunCalls(Header(res, script[i].a, script[i].b), script, i + 1, gzipOk)
    ELSE RunCalls(Send(res, script[i].data, gzipOk), script, i + 1, gzipOk)

----------------------------------------------------------------------------
(* The application's handlers: each is the calls it makes on res.  fs is   *)
(* the served directory, file name to the bytes of the file; io says how   *)
(* the calls into the system end: io.write for fs.writeFileSync, io.read   *)
(* for fs.readFileSync, io.gzip for zlib.gzipSync.                         *)

\* the most bytes of a body that a write that fails has written
MaxKept == 2

\* fs.writeFileSync opens the file, creating or truncating it, and writes:
\* it returns, or throws at the open (the file is as it was), or throws
\* after the open with kept bytes of the body written (none, some when the
\* file size limit or the disk ends the write, all when the failure comes
\* after the last byte)
WriteOutcomes ==
    { [end |-> "written", kept |-> 0], [end |-> "notOpened", kept |-> 0] }
        \cup { [end |-> "notWritten", kept |-> n] : n \in 0..MaxKept }

\* fs.readFileSync of a file that is there returns its bytes (read is TRUE)
\* or throws (no file descriptor free, no permission); zlib.gzipSync returns
\* (gzip is TRUE) or throws
IoOutcomes == [write : WriteOutcomes, read : BOOLEAN, gzip : BOOLEAN]

IsTruthy(opt) == opt # Undefined /\ opt[1] # ""

\* res.status(code).send(data)
StatusSend(code, data) == <<StatusCall(code), SendCall(data)>>

\* app.get("/", ...)
RootHandler(req) == StatusSend("200", NoData)

\* res.send(req.params?.str) for the value str of the parameter
SendParam(str) == StatusSend("200", IF str = Undefined THEN NoData ELSE Str(str[1]))

\* app.get("/echo/:str", ...)
EchoHandler(req) == SendParam(MapGet(req.params, "str"))

SendUserAgent(ua) ==
    IF IsTruthy(ua) THEN StatusSend("200", Str(ua[1]))
    ELSE StatusSend("404", Str("No user-agent header found."))

\* app.get("/user-agent", ...)
UserAgentHandler(req) == SendUserAgent(MapGet(req.headers, "user_agent"))

\* fs.readFileSync gives the bytes of the file; it throws for a missing
\* file, and for a file that is there when the read fails (io.read is
\* FALSE): the catch answers 404 for both
SendFile(filename, fs, io) ==
    IF IsTruthy(filename) /\ MapHas(fs, filename[1]) /\ io.read
    THEN StatusSend("200", Buf(MapGet(fs, filename[1])[1]))
    ELSE StatusSend("404", Str("File not found"))

\* app.get("/files/:filename", ...)
GetFileHandler(req, fs, io) == SendFile(MapGet(req.params, "filename"), fs, io)

\* app.post("/files/:filename", ...): nothing is sent when the filename or the
\* body is missing
PostFileHandler(req, io) ==
    IF IsTruthy(MapGet(req.params, "filename")) /\ req.body # ""
    THEN IF io.write.end = "written" THEN StatusSend("201", NoData)
         ELSE StatusSend("404", Str("Something went terrible wrong"))
    ELSE <<>>

\* The directory after the POST handler, fs.writeFileSync(fileLocation,
\* req.body): the file holds the bytes of the body when the write succeeds;
\* when it throws after the file was opened (created or truncated) the file
\* holds the bytes written before the failure, io.write.kept of them and
\* the whole body at most; when the open throws the directory is as it was.
PostFileWrite(req, fs, io) ==
    IF /\ IsTruthy(MapGet(req.params, "filename"))
       /\ req.body # ""
       /\ io.write.end # "notOpened"
    THEN MapSet(fs, MapGet(req.params, "filename")[1],
                IF io.write.end = "written" THEN Utf8Bytes(req.body)
                ELSE SubSeq(Utf8Bytes(req.body), 1,
                            MinOf({io.write.kept, Len(Utf8Bytes(req.body))})))
    ELSE fs

Handlers == {"root", "echo", "userAgent", "getFile", "postFile"}

\* callback(req, res): the calls the callback makes on res
Callback(cb, req, fs, io) ==
    CASE cb = "root"      -> RootHandler(req)
      [] cb = "echo"      -> EchoHandler(req)
      [] cb = "userAgent" -> UserAgentHandler(req)
      [] cb = "getFile"   -> GetFileHandler(req, fs, io)
      [] cb = "postFile"  -> PostFileHandler(req, io)

----------------------------------------------------------------------------
(* HttpServer                                                              *)

AcceptableEncoding == {"gzip"}

SeqToSet(q) == {q[i] : i \in 1..Len(q)}

AcceptsGzip(ae) ==
    IF Len(Split(ae, ",")) > 1
    THEN AcceptableEncoding \cap {Trim(x) : x \in SeqToSet(Split(ae, ","))} # {}
    ELSE ae \in AcceptableEncoding

\* The encoding decision of the data handler
EncodeDecision(req) ==
    IF IsTruthy(MapGet(req.headers, "accept_encoding"))
    THEN AcceptsGzip(MapGet(req.headers, "accept_encoding")[1])
    ELSE FALSE

\* this.endpoints.get(method): a Map for "GET" and "POST", undefined otherwise
MethodEndpoints(eps, method) ==
    IF method = "GET" THEN Some(eps.GET)
    ELSE IF method = "POST" THEN Some(eps.POST)
    ELSE Undefined

NotFound == "HTTP/1.1 404 Not Found\r\n\r\n"

\* What a data handler leaves behind.  fault: an exception escaped it.
Outcome(fault, req, callback, encode, res, fs) ==
    [fault |-> fault, req |-> req, callback |-> callback, encode |-> encode,
     sent |-> res.sent, writes |-> res.writes, log |-> res.log, fs |-> fs]

\* let res = new HttpRes(socket, encode); callback(req, res)
Invoke(request, cb, encode, fs, io) ==
    Outcome(FALSE, Some(request), Some(cb), encode,
            RunCalls(HttpRes(encode), Callback(cb, request, fs, io), 1, io.gzip),
            IF cb = "postFile" THEN PostFileWrite(request, fs, io) ELSE fs)

\* if (callback) { ... } else { socket.write('HTTP/1.1 404 Not Found\r\n\r\n') }
Dispatch(request, callback, fs, io) ==
    IF callback # Undefined
    THEN Invoke(request, callback[1], EncodeDecision(request), fs, io)
    ELSE Outcome(FALSE, Some(request), Undefined, FALSE,
                 [sent |-> <<>>, writes |-> <<Str(NotFound)>>, log |-> <<>>], fs)

\* methodEndpoints?.get(req.endpoint)
LookUp(methodEndpoints, endpoint) ==
    IF endpoint = Undefined THEN Undefined ELSE MapGet(methodEndpoints[1], endpoint[1])

Built(methodEndpoints, built, fs, io) ==
    IF built = Undefined
    THEN Outcome(TRUE, Undefined, Undefined, FALSE,
                 [sent |-> <<>>, writes |-> <<>>, log |-> <<>>], fs)
    ELSE Dispatch(built[1], LookUp(methodEndpoints, built[1].endpoint), fs, io)

WithEndpoints(methodEndpoints, d, fs, io) ==
    Built(methodEndpoints, RequestBuilder(d, methodEndpoints), fs, io)

\* The socket's 'data' handler on the bytes d
DataHandler(eps, fs, d, io) ==
    WithEndpoints(MethodEndpoints(eps, Split(d, " ")[1]), d, fs, io)

\* get(url, callback), post(url, callback)
Register(eps, method, url, cb) ==
    IF method = "GET" THEN [eps EXCEPT !.GET = MapSet(@, url, cb)]
    ELSE [eps EXCEPT !.POST = MapSet(@, url, cb)]

----------------------------------------------------------------------------
(* The state machine                                                       *)

VARIABLES
    endpoints,     \* HttpServer.endpoints: method to Map of url to callback
    calls,         \* history: the get and post calls made, in order
    listening,     \* listen has been called
    files,         \* the served directory
    lastData,      \* the bytes of the data event being handled, <<>> when idle
    lastFault,     \* its data handler ended by an uncaught exception
    lastReq,       \* the request its data handler built, <<>> if none
    lastCallback,  \* the callback its data handler invoked, <<>> if none
    lastEncode,    \* the encoding decision of its data handler
    lastSent,      \* the arguments of the send calls of its data handler
    socket,        \* the chunks its data handler wrote to the socket
    lastLog,       \* the lines its data handler wrote to the console
    response,      \* an HttpRes object a handler is calling, <<>> if none
    resCalls,      \* history: the calls made on it, in order
    inbox,         \* for each connection, the client's writes received and not yet read
    arrived,       \* the number of writes received from the clients in all
    peer,          \* for each connection, the state of its socket
    frames,        \* the data handlers that have started and not returned
    wire,          \* for each connection, the chunks written to its socket
    dispatched,    \* the number of data events whose handler has started
    crashed        \* an uncaught exception has ended the process

vars ==
    <<endpoints, calls, listening, files,
      lastData, lastFault, lastReq, lastCallback, lastEncode, lastSent, socket, lastLog,
      response, resCalls, inbox, arrived, peer, frames, wire, dispatched, crashed>>

\* the response object of ResSpec
resVars == <<response, resCalls>>

\* the connections of ConnSpec
connVars == <<inbox, arrived, peer, frames, wire, dispatched, crashed>>

event ==
    <<lastData, lastFault, lastReq, lastCallback, lastEncode, lastSent, socket, lastLog>>

\* no response object is in use
NoResponse == response = Undefined /\ resCalls = <<>>

\* no connection is open
NoConnections ==
    /\ inbox = <<>>
    /\ arrived = 0
    /\ peer = <<>>
    /\ frames = <<>>
    /\ wire = <<>>
    /\ dispatched = 0
    /\ crashed = FALSE

\* no data event is being handled
NoEvent ==
    /\ lastData = Undefined
    /\ lastFault = FALSE
    /\ lastReq = Undefined
    /\ lastCallback = Undefined
    /\ lastEncode = FALSE
    /\ lastSent = <<>>
    /\ socket = <<>>
    /\ lastLog = <<>>

\* new HttpServer()
Init ==
    /\ endpoints = [GET |-> <<>>, POST |-> <<>>]
    /\ calls = <<>>
    /\ listening = FALSE
    /\ files \in InitialFiles
    /\ NoEvent
    /\ NoResponse
    /\ NoConnections

\* app.get(url, cb), before or after listen.  JavaScript runs one call at a
\* time and no handler of the application registers a route: the call is made
\* while no data handler is on the stack.
Get(url, cb) ==
    /\ lastData = Undefined
    /\ Len(calls) < MaxRoutes
    /\ endpoints' = Register(endpoints, "GET", url, cb)
    /\ calls' = Append(calls, <<"GET", url, cb>>)
    /\ UNCHANGED <<listening, files, event, resVars, connVars>>

\* app.post(url, cb), likewise
Post(url, cb) ==
    /\ lastData = Undefined
    /\ Len(calls) < MaxRoutes
    /\ endpoints' = Register(endpoints, "POST", url, cb)
    /\ calls' = Append(calls, <<"POST", url, cb>>)
    /\ UNCHANGED <<listening, files, event, resVars, connVars>>

\* app.listen(4221, ...)
Listen ==
    /\ ~listening
    /\ listening' = TRUE
    /\ UNCHANGED <<endpoints, calls, files, event, resVars, connVars>>

\* socket.on('data', ...) for the bytes d, on an idle connection
Data(d, io) ==
    /\ listening
    /\ lastData = Undefined
    /\ \E out \in {DataHandler(endpoints, files, d, io)} :
           /\ lastData' = Some(d)
           /\ lastFault' = out.fault
           /\ lastReq' = out.req
           /\ lastCallback' = out.callback
           /\ lastEncode' = out.encode
           /\ lastSent' = out.sent
           /\ socket' = out.writes
           /\ lastLog' = out.log
           /\ files' = out.fs
    /\ UNCHANGED <<endpoints, calls, listening, resVars, connVars>>

\* The data handler has returned: the connection is idle again and waits for
\* its next data event.  An exception that escaped the handler is uncaught
\* (no 'error' or uncaughtException handler is installed) and ends the
\* process, so no event follows it.
Return ==
    /\ lastData # Undefined
    /\ ~lastFault
    /\ lastData' = Undefined
    /\ lastFault' = FALSE
    /\ lastReq' = Undefined
    /\ lastCallback' = Undefined
    /\ lastEncode' = FALSE
    /\ lastSent' = <<>>
    /\ socket' = <<>>
    /\ lastLog' = <<>>
    /\ UNCHANGED <<endpoints, calls, listening, files, resVars, connVars>>

Next ==
    \/ \E r \in GetRoutes : Get(r[1], r[2])
    \/ \E r \in PostRoutes : Post(r[1], r[2])
    \/ Listen
    \/ \E d \in DataInputs, io \in IoOutcomes : Data(d, io)
    \/ Return

Spec == Init /\ [][Next]_vars

----------------------------------------------------------------------------
(* The response writer on its own: one HttpRes object and any sequence of  *)
(* status, header and send calls a handler may make on it                  *)

\* the number of calls made on the object
MaxCalls == 4

\* type StatusCode = keyof typeof ReasonPhrases
StatusCodes == {ReasonPhrases[i][1] : i \in 1..Len(ReasonPhrases)}

\* the headers a handler sets: one of its own, one that send sets too
HeaderArgs == { <<"X-Trace", "1">>, <<"Content-Type", "text/html">> }

\* the data a handler sends: nothing, a string, a Buffer (the bytes of "ab"),
\* an object, null
SendArgs == { NoData, Str("hi"), Buf(<<97, 98>>), Obj("{\"a\":1}"), Obj("null") }

\* new HttpRes(socket, encode), for either encoding decision
ResInit ==
    /\ endpoints = [GET |-> <<>>, POST |-> <<>>]
    /\ calls = <<>>
    /\ listening = FALSE
    /\ files = <<>>
    /\ NoEvent
    /\ NoConnections
    /\ \E encode \in BOOLEAN : response = Some(HttpRes(encode))
    /\ resCalls = <<>>

\* res.status(code)
ResStatus(code) ==
    /\ Len(resCalls) < MaxCalls
    /\ response' = Some(Status(response[1], code))
    /\ resCalls' = Append(resCalls, StatusCall(code))
    /\ UNCHANGED <<endpoints, calls, listening, files, event, connVars>>

\* res.header(k, v)
ResHeader(k, v) ==
    /\ Len(resCalls) < MaxCalls
    /\ response' = Some(Header(response[1], k, v))
    /\ resCalls' = Append(resCalls, HeaderCall(k, v))
    /\ UNCHANGED <<endpoints, calls, listening, files, event, connVars>>

\* res.send(data)
ResSend(data, gzipOk) ==
    /\ Len(resCalls) < MaxCalls
    /\ response' = Some(Send(response[1], data, gzipOk))
    /\ resCalls' = Append(resCalls, SendCall(data))
    /\ UNCHANGED <<endpoints, calls, listening, files, event, connVars>>

ResNext ==
    \/ \E code \in StatusCodes : ResStatus(code)
    \/ \E h \in HeaderArgs : ResHeader(h[1], h[2])
    \/ \E data \in SendArgs, gzipOk \in BOOLEAN : ResSend(data, gzipOk)

ResSpec == ResInit /\ [][ResNext]_vars

----------------------------------------------------------------------------
(* The application serving several connections.  Node runs the listeners   *)
(* of all sockets on one thread; a data handler consists of its start (the *)
(* request is built, the callback runs up to its send, files are read and  *)
(* written synchronously), one step for each socket.write, and its return. *)

\* the get and post calls of the application, in order
AppCalls ==
    << <<"GET", "/", "root">>, <<"GET", "/echo/:str", "echo">>,
       <<"GET", "/user-agent", "userAgent">>, <<"GET", "/files/:filename", "getFile">>,
       <<"POST", "/files/:filename", "postFile">> >>

\* this.endpoints after the calls from the i-th on
RECURSIVE RegisterAll(_, _, _)
RegisterAll(eps, regs, i) ==
    IF i > Len(regs) THEN eps
    ELSE RegisterAll(Register(eps, regs[i][1], regs[i][2], regs[i][3]), regs, i + 1)

AppEndpoints == RegisterAll([GET |-> <<>>, POST |-> <<>>], AppCalls, 1)

\* A variant of LoopIdle in which a listener may be called while a data
\* handler is still on its way
LoopNeverBusy(fr) == TRUE

\* The listener of 'data' is a synchronous function: it holds no await and
\* hands no callback to a timer or to asynchronous I/O, so the event loop
\* calls the next listener only when no data handler is on the stack.
LoopIdle(fr) == fr = <<>>

\* the sequence q without its k-th element
Without(q, k) == SubSeq(q, 1, k - 1) \o SubSeq(q, k + 1, Len(q))

\* the application has made its registrations and listens; the clients have
\* connected
ConnInit ==
    /\ endpoints = AppEndpoints
    /\ calls = AppCalls
    /\ listening = TRUE
    /\ files \in InitialFiles
    /\ NoEvent
    /\ NoResponse
    /\ inbox = [c \in Connections |-> <<>>]
    /\ arrived = 0
    /\ peer = [c \in Connections |-> "open"]
    /\ frames = <<>>
    /\ wire = [c \in Connections |-> <<>>]
    /\ dispatched = 0
    /\ crashed = FALSE

\* The client of connection c writes the request d, and its bytes reach the
\* server: a connection is a stream of bytes, they join the bytes received
\* and not yet read.
Arrive(c, d) ==
    /\ ~crashed
    /\ peer[c] = "open"
    /\ arrived < MaxEvents
    /\ inbox' = [inbox EXCEPT ![c] = Append(@, d)]
    /\ arrived' = arrived + 1
    /\ UNCHANGED <<endpoints, calls, listening, files, event, resVars,
                   peer, frames, wire, dispatched, crashed>>

\* The client of connection c closes or destroys its socket.  What it wrote
\* before is still read by the server; the server goes on, or its socket
\* reports the reset of the connection (SocketError).
Destroy(c) ==
    /\ ~crashed
    /\ peer[c] = "open"
    /\ peer' = [peer EXCEPT ![c] = "gone"]
    /\ UNCHANGED <<endpoints, calls, listening, files, event, resVars,
                   inbox, arrived, frames, wire, dispatched, crashed>>

\* The event loop reads connection c and calls its 'data' listener with all
\* the bytes received: the writes of the client that arrived together make
\* one data event.  An exception that escapes the listener ends the process.
Start(c, io) ==
    /\ ~crashed
    /\ peer[c] # "error"
    /\ inbox[c] # <<>>
    /\ LoopIdle(frames)
    /\ \E out \in {DataHandler(endpoints, files, Concat(inbox[c]), io)} :
           /\ files' = out.fs
           /\ crashed' = out.fault
           /\ frames' = IF out.fault THEN frames
                        ELSE Append(frames, [conn |-> c, id |-> dispatched + 1,
                                             todo |-> out.writes])
    /\ inbox' = [inbox EXCEPT ![c] = <<>>]
    /\ dispatched' = dispatched + 1
    /\ UNCHANGED <<endpoints, calls, listening, event, resVars, arrived, peer, wire>>

\* The k-th handler on the stack makes its next socket.write.  The call
\* returns in every case; made on a socket whose client has gone, the write
\* may fail (EPIPE, ECONNRESET), which the socket reports later by an 'error'
\* event.
Write(k, fails) ==
    /\ ~crashed
    /\ k \in 1..Len(frames)
    /\ frames[k].todo # <<>>
    /\ fails => peer[frames[k].conn] = "gone"
    /\ wire' = [wire EXCEPT ![frames[k].conn] =
                   Append(@, [id |-> frames[k].id, chunk |-> Head(frames[k].todo)])]
    /\ peer' = IF fails THEN [peer EXCEPT ![frames[k].conn] = "error"] ELSE peer
    /\ frames' = [frames EXCEPT ![k].todo = Tail(@)]
    /\ UNCHANGED <<endpoints, calls, listening, files, event, resVars,
                   inbox, arrived, dispatched, crashed>>

\* the k-th handler on the stack has made its writes and returns
Finish(k) ==
    /\ ~crashed
    /\ k \in 1..Len(frames)
    /\ frames[k].todo = <<>>
    /\ frames' = Without(frames, k)
    /\ UNCHANGED <<endpoints, calls, listening, files, event, resVars,
                   inbox, arrived, peer, wire, dispatched, crashed>>

\* The socket of connection c emits 'error': for a write that failed, or for
\* a read that meets the reset of a client that has gone (ECONNRESET: the
\* client closed with bytes of an answer unread, or aborted the connection),
\* no write having failed.  The server registers listeners for 'data' and
\* 'close' alone: the event is unhandled and ends the process.
SocketError(c) ==
    /\ ~crashed
    /\ peer[c] \in {"gone", "error"}
    /\ LoopIdle(frames)
    /\ crashed' = TRUE
    /\ UNCHANGED <<endpoints, calls, listening, files, event, resVars,
                   inbox, arrived, peer, frames, wire, dispatched>>

ConnNext ==
    \/ \E c \in Connections, d \in ConnInputs : Arrive(c, d)
    \/ \E c \in Connections : Destroy(c)
    \/ \E c \in Connections, io \in IoOutcomes : Start(c, io)
    \/ \E k \in 1..MaxEvents, fails \in BOOLEAN : Write(k, fails)
    \/ \E k \in 1..MaxEvents : Finish(k)
    \/ \E c \in Connections : SocketError(c)

ConnSpec == ConnInit /\ [][ConnNext]_vars

----------------------------------------------------------------------------
(* The data event being handled, read back from its bytes                  *)

StartsWith(s, p) == Len(s) >= Len(p) /\ SubSeq(s, 1, Len(p)) = p

MaxOf(S) == CHOOSE x \in S : \A y \in S : y <= x

\* a data event has been handled and its bytes hold a method and a path
HasPath == lastData # Undefined /\ HeadOfInput[lastData[1]].endpoint # Undefined

\* the text of the event before its first space
RawMethod == HeadOfInput[lastData[1]].method

\* the text between its first and its second space
RawPath == HeadOfInput[lastData[1]].endpoint[1]

\* the patterns registered for the method of the event, in the order of the Map
Patterns ==
    IF RawMethod = "GET" THEN MapKeys(endpoints.GET)
    ELSE IF RawMethod = "POST" THEN MapKeys(endpoints.POST)
    ELSE <<>>

\* the regular expression of pattern P matches the path
Matches(P, path) == MatchOfInput[P][path] # Undefined

\* the get and post calls made for the method of the event
CallsOfMethod == {i \in 1..Len(calls) : calls[i][1] = RawMethod}

\* those whose pattern matches the raw path
MatchingCalls == {i \in CallsOfMethod : Matches(calls[i][2], RawPath)}

\* The segments of a pattern or a path between its slashes
Segments(s) == Split(s, "/")

IsParamSegment(seg) == Len(seg) >= 2 /\ Ch(seg, 1) = ":"

IsWordSegment(seg) ==
    seg # "" /\ \A i \in 1..Len(seg) : Ch(seg, i) \in WordChars \cup {"-"}

ParamPositions(P) == {k \in 1..Len(Segments(P)) : IsParamSegment(Segments(P)[k])}

\* same literal segments, each parameter position holding word/hyphen characters
StructurallyMatches(P, path) ==
    /\ Len(Segments(P)) = Len(Segments(path))
    /\ \A k \in 1..Len(Segments(P)) :
          IF IsParamSegment(Segments(P)[k]) THEN IsWordSegment(Segments(path)[k])
          ELSE Segments(P)[k] = Segments(path)[k]

\* the parameter names of P with the path segments at their positions
SegmentParams(P, path) ==
    {<<SubSeq(Segments(P)[k], 2, Len(Segments(P)[k])), Segments(path)[k]>> :
        k \in ParamPositions(P)}

\* the lines of a response head, or of a request, between its first line and
\* its blank line
LinesBetween(text) == SubSeq(Split(text, "\r\n"), 2, Len(Split(text, "\r\n")) - 2)

\* the chunks written to the socket that open a response
StatusLineChunks ==
    {i \in 1..Len(socket) :
        socket[i].type = "string" /\ StartsWith(socket[i].val, "HTTP/1.1 ")}

----------------------------------------------------------------------------
(* C1, C2: unmatched paths and malformed requests                          *)

\* C1 (as the specification states it): a data event whose method is GET or
\* POST and whose raw path matches no registered pattern of that method and
\* equals none of them writes exactly the bare 404 response and invokes no
\* handler.  The code violates it: the header reduce throws before the lookup
\* when a line it takes for a header line holds no colon.
C1_UnmatchedPathGetsBare404 ==
    ( /\ HasPath
      /\ RawMethod \in {"GET", "POST"}
      /\ \A i \in 1..Len(Patterns) :
            ~Matches(Patterns[i], RawPath) /\ Patterns[i] # RawPath )
    => (socket = <<Str(NotFound)>> /\ lastCallback = Undefined)

\* C2 (as the specification states it): no exception escapes the data
\* handler, whatever the bytes of the event.  The code violates it.
C2_NoExceptionEscapes == lastData # Undefined => ~lastFault

----------------------------------------------------------------------------
(* C3: which handler is dispatched                                         *)

\* C3 (as the specification states it): the handler invoked is the one
\* supplied by the earliest registration, for the method, whose pattern
\* matches the raw path, also when the same pattern was registered twice.
\* The code violates it: a second registration of a pattern replaces the
\* handler of the first in the Map.
C3_EarliestRegistrationWins ==
    (HasPath /\ lastCallback # Undefined /\ MatchingCalls # {})
    => lastCallback[1] = calls[MinOf(MatchingCalls)][3]

----------------------------------------------------------------------------
(* C4: the parameters of the request                                       *)

\* C4 (as the specification states it): for every registered pattern with a
\* parameter that the raw path structurally matches, the params of the
\* request map each parameter name of the pattern to the path segment at its
\* position, and no value of params holds a "/".  The code violates it: the
\* name __proto__ gets no entry, and of two patterns that match, the second
\* gets none.
C4_ParamsOfEveryMatchingPattern ==
    (HasPath /\ lastReq # Undefined)
    => /\ \A i \in 1..Len(Patterns) :
             (ParamPositions(Patterns[i]) # {} /\ StructurallyMatches(Patterns[i], RawPath))
             => \A kv \in SegmentParams(Patterns[i], RawPath) :
                   MapGet(lastReq[1].params, kv[1]) = Some(kv[2])
       /\ \A kv \in SeqToSet(lastReq[1].params) : "/" \notin CharsOf(kv[2])

----------------------------------------------------------------------------
(* C5: patterns without parameters                                         *)

\* C5 (as the specification states it): a registered pattern without a
\* parameter segment matches a raw path if and only if the two are the same
\* string.  The code violates it: the pattern is compiled as a regular
\* expression, in which "." matches any character.
C5_ParameterlessIsEquality ==
    HasPath
    => \A i \in 1..Len(Patterns) :
          ParamNamesOfUrl[Patterns[i]] = <<>>
          => (Matches(Patterns[i], RawPath) <=> Patterns[i] = RawPath)

----------------------------------------------------------------------------
(* C6, C7, C8: the encoding decision and what send writes                  *)

\* the handler was invoked and called send once
SentOnce == lastCallback # Undefined /\ Len(lastSent) = 1

\* the values the response head gives for the header called name
EmittedValues(head, name) ==
    {SubSeq(l, Len(name) + 3, Len(l)) :
        l \in {x \in SeqToSet(LinesBetween(head)) : StartsWith(x, name \o ": ")}}

\* the value of the n bits of bits from position pos on, highest first
RECURSIVE CodeValue(_, _, _)
CodeValue(bits, pos, n) ==
    IF n = 0 THEN 0 ELSE 2 * CodeValue(bits, pos, n - 1) + bits[pos + n - 1]

\* The code with fixed Huffman codes (RFC 1951, 3.2.6) that starts at
\* position pos of the bits, as the symbol it stands for and its length:
\* seven bits from 0000000 are the symbols 256 (the end of the block) to 279,
\* eight bits from 00110000 the literals 0 to 143, eight bits from 11000000
\* the symbols 280 to 287, nine bits from 110010000 the literals 144 to 255.
\* The empty tuple when the bits end before the code does.
FixedCode(bits, pos) ==
    CASE pos + 6 <= Len(bits) /\ CodeValue(bits, pos, 7) \in 0..23 ->
             <<256 + CodeValue(bits, pos, 7), 7>>
      [] pos + 7 <= Len(bits) /\ CodeValue(bits, pos, 8) \in 48..191 ->
             <<CodeValue(bits, pos, 8) - 48, 8>>
      [] pos + 7 <= Len(bits) /\ CodeValue(bits, pos, 8) \in 192..199 ->
             <<280 + (CodeValue(bits, pos, 8) - 192), 8>>
      [] pos + 8 <= Len(bits) /\ CodeValue(bits, pos, 8) \in 200..255 ->
             <<144 + (CodeValue(bits, pos, 9) - 400), 9>>
      [] OTHER -> <<>>

\* the codes from position pos on, up to the first that is no literal
RECURSIVE FixedCodes(_, _)
FixedCodes(bits, pos) ==
    IF FixedCode(bits, pos) = <<>> \/ FixedCode(bits, pos)[1] > 255
    THEN <<FixedCode(bits, pos)>>
    ELSE <<FixedCode(bits, pos)>> \o FixedCodes(bits, pos + FixedCode(bits, pos)[2])

RECURSIVE BytesToBits(_, _)
BytesToBits(bytes, i) ==
    IF i > Len(bytes) THEN <<>> ELSE ByteBits(bytes[i]) \o BytesToBits(bytes, i + 1)

\* A deflate stream of one final block with fixed codes that holds literals
\* only: the literals before the end of the block.  Undefined for any other
\* stream (the codes of lengths, 257 and up, are not decoded).
Inflate(bytes) ==
    IF Len(bytes) < 2 \/ SubSeq(ByteBits(bytes[1]), 1, 3) # <<1, 1, 0>> THEN Undefined
    ELSE LET codes == FixedCodes(BytesToBits(bytes, 1), 4)
         IN  IF codes[Len(codes)] = <<>> \/ codes[Len(codes)][1] # 256 THEN Undefined
             ELSE Some(SubSeq([i \in 1..Len(codes) |-> codes[i][1]], 1, Len(codes) - 1))

\* zlib.gunzipSync for a gzip member without optional fields (RFC 1952) that
\* holds such a stream: the bytes it decodes to, Undefined when the header,
\* the stream, the CRC-32 or the length of the trailer is wrong
Gunzip(z) ==
    IF Len(z) < 18 \/ SubSeq(z, 1, 4) # <<31, 139, 8, 0>> THEN Undefined
    ELSE LET out == Inflate(SubSeq(z, 11, Len(z) - 8))
         IN  IF out = Undefined THEN Undefined
             ELSE IF SubSeq(z, Len(z) - 7, Len(z))
                         = Crc32(out[1]) \o <<Len(out[1]) % 256, (Len(out[1]) \div 256) % 256, 0, 0>>
                  THEN out
                  ELSE Undefined

\* the handler sent a body once, with the encoding decision compress
SentEncoded == SentOnce /\ lastEncode /\ lastSent[1].type # "undefined"

\* two chunks were written, head and body; the body is a gzip member that
\* decodes to the data sent, the head holds Content-Encoding: gzip, and its
\* only Content-Length is the number of compressed bytes
WrittenCompressed ==
    /\ Len(socket) = 2
    /\ socket[2].type = "buffer"
    /\ Gunzip(socket[2].val) = Some(BodyBytes(lastSent[1]))
    /\ EmittedValues(socket[1].val, "Content-Encoding") = {"gzip"}
    /\ EmittedValues(socket[1].val, "Content-Length") = {NumberToString(Len(socket[2].val))}

\* two chunks were written, head and body; the body is the data sent as it
\* is, the head holds no Content-Encoding, and its only Content-Length is the
\* number of bytes of the data
WrittenUncompressed ==
    /\ Len(socket) = 2
    /\ BodyBytes(socket[2]) = BodyBytes(lastSent[1])
    /\ EmittedValues(socket[1].val, "Content-Encoding") = {}
    /\ EmittedValues(socket[1].val, "Content-Length")
           = {NumberToString(Len(BodyBytes(lastSent[1])))}

\* C6 (as the specification states it): when the encoding decision is
\* compress and the handler sends a body, the body written is the gzip of the
\* data sent (gunzip gives the data back), the head holds Content-Encoding:
\* gzip, and its only Content-Length is the number of compressed bytes.
C6_GzipBodyAndLength == SentEncoded => WrittenCompressed

\* C6 (amended): when the encoding decision is compress and the handler sends
\* a body, the response is written compressed as above unless zlib.gzipSync
\* throws; then, and only then, "Failed to compress" is logged and the
\* response is written uncompressed: the body is the data sent, the head
\* holds no Content-Encoding and its Content-Length is the length of the data.
C6_GzipUnlessCompressionFails ==
    SentEncoded
    => IF lastLog = <<>> THEN WrittenCompressed
       ELSE lastLog = <<"Failed to compress">> /\ WrittenUncompressed

\* C6 witness: a string was sent compressed, no failure was logged, and the
\* compressed bytes differ in number from the string
C6_Witness ==
    /\ SentEncoded
    /\ lastLog = <<>>
    /\ lastSent[1].type = "string"
    /\ WrittenCompressed
    /\ Len(socket[2].val) # Len(lastSent[1].val)

\* the text of a line after its first colon
AfterFirstColon(l) == SubSeq(l, IndexOf(l, ":") + 1, Len(l))

\* the text of a line before its first colon
BeforeFirstColon(l) == SubSeq(l, 1, IndexOf(l, ":") - 1)

\* the header lines of the event's bytes that hold a colon
RawHeaderLines == {l \in SeqToSet(LinesBetween(lastData[1])) : IndexOf(l, ":") > 0}

\* gzip is one of the comma-separated, trimmed entries of an Accept-Encoding
\* header line of the event's bytes
GzipListed ==
    \E l \in RawHeaderLines :
        /\ ToLowerCase(BeforeFirstColon(l)) = "accept-encoding"
        /\ "gzip" \in {Trim(x) : x \in SeqToSet(Split(AfterFirstColon(l), ","))}

\* C7 (as the specification states it): the encoding decision of a dispatched
\* request is compress if and only if gzip is one of the entries of its
\* Accept-Encoding header; otherwise the response holds no Content-Encoding
\* and its body is the data sent.  The code violates it: the header value the
\* decision reads is cut at its second colon.
C7_CompressIffGzipListed ==
    lastCallback # Undefined
    => /\ lastEncode <=> GzipListed
       /\ (SentOnce /\ ~GzipListed)
          => /\ EmittedValues(socket[1].val, "Content-Encoding") = {}
             /\ Len(socket) = 2 => BodyBytes(socket[2]) = BodyBytes(lastSent[1])

\* C8 (as the specification states it): a send without a body writes the
\* status line and the blank line alone, for either encoding decision (the
\* handlers set no header of their own), and the handler of "/" is answered
\* with exactly HTTP/1.1 200 OK and the blank line.  The code violates it when
\* the decision is compress.
C8_SendWithoutBodyWritesHeadOnly ==
    (SentOnce /\ lastSent[1].type = "undefined")
    => /\ Len(socket) = 1
       /\ LinesBetween(socket[1].val) = <<>>
       /\ lastCallback[1] = "root" => socket = <<Str("HTTP/1.1 200 OK\r\n\r\n")>>

----------------------------------------------------------------------------
(* C9: the header mapping                                                  *)

\* every occurrence of pat in s replaced
RECURSIVE ReplaceAll(_, _, _)
ReplaceAll(s, pat, by) ==
    IF IndexOf(s, pat) = 0 THEN s
    ELSE SubSeq(s, 1, IndexOf(s, pat) - 1) \o by
            \o ReplaceAll(SubSeq(s, IndexOf(s, pat) + Len(pat), Len(s)), pat, by)

WithoutOneLeadingSpace(v) == IF StartsWith(v, " ") THEN SubSeq(v, 2, Len(v)) ELSE v

\* C9 (as the specification states it): for every header line Name: value of
\* the request, the headers hold, under Name lower-cased with every hyphen
\* replaced by an underscore, the whole text after the first colon less one
\* leading space.  The code violates it: only the first hyphen is replaced
\* and the value ends at the second colon.
C9_HeaderKeyAndWholeValue ==
    (lastData # Undefined /\ lastReq # Undefined)
    => \A l \in RawHeaderLines :
          MapGet(lastReq[1].headers, ToLowerCase(ReplaceAll(BeforeFirstColon(l), "-", "_")))
              = Some(WithoutOneLeadingSpace(AfterFirstColon(l)))

----------------------------------------------------------------------------
(* C10: one response for each data event                                   *)

\* C10 (as the specification states it): when the data handler has finished,
\* exactly one response, one status line, has been written to the socket for
\* the event.  The code violates it: the POST handler returns without a send
\* when the body is empty.
C10_AnsweredExactlyOnce ==
    (lastData # Undefined /\ ~lastFault) => Cardinality(StatusLineChunks) = 1

----------------------------------------------------------------------------
(* C13: a handler under a pattern with parameters                          *)

\* C13 (as the specification implies it): whenever the handler registered
\* under a pattern with parameter segments is invoked, the params of the
\* request hold a value for every parameter name of that pattern.  The code
\* violates it: a raw path that is the pattern string itself matches no
\* regular expression, stays the endpoint, and is found by the exact lookup
\* of the Map, so the handler runs with empty params.
C13_InvokedHandlerHasItsParams ==
    lastCallback # Undefined
    => \A k \in 1..Len(ParamNamesOfUrl[lastReq[1].endpoint[1]]) :
          MapHas(lastReq[1].params, ParamNamesOfUrl[lastReq[1].endpoint[1]][k])

----------------------------------------------------------------------------
(* C11: the status line                                                    *)

\* the reason phrase the specification pairs with each code
ReasonOf(code) ==
    CASE code = "200" -> "OK"
      [] code = "201" -> "Created"
      [] code = "404" -> "Not Found"

\* the positions of the send calls made on the response object
SendPositions == {i \in 1..Len(resCalls) : resCalls[i].op = "send"}

\* the status calls made before position i
StatusBefore(i) == {j \in 1..(i - 1) : resCalls[j].op = "status"}

\* the code in force at position i: the argument of the last status call
\* before it, 404 when there is none
CodeAt(i) == IF StatusBefore(i) = {} THEN "404" ELSE resCalls[MaxOf(StatusBefore(i))].a

\* the response heads written by the object, in order
HeadsWritten ==
    SelectSeq(response[1].writes,
              LAMBDA w : w.type = "string" /\ StartsWith(w.val, "HTTP/1.1 "))

\* C11: each send writes one response head, whose status line holds the
\* argument of the last status call made before that send, whatever status
\* and header calls preceded it, and 404 when status was never called, with
\* the reason phrase of that code (200 OK, 201 Created, 404 Not Found).
C11_LastStatusCallWins ==
    response # Undefined
    => /\ Len(HeadsWritten) = Cardinality(SendPositions)
       /\ \A i \in SendPositions :
             Split(HeadsWritten[Cardinality({j \in SendPositions : j <= i})].val, "\r\n")[1]
                 = "HTTP/1.1 " \o CodeAt(i) \o " " \o ReasonOf(CodeAt(i))

\* C11 witness: status was called twice with two codes, then header, then
\* send, and the status line written holds the second code
C11_Witness ==
    /\ response # Undefined
    /\ Len(resCalls) = 4
    /\ resCalls[1].op = "status"
    /\ resCalls[2].op = "status"
    /\ resCalls[1].a # resCalls[2].a
    /\ resCalls[3].op = "header"
    /\ resCalls[4].op = "send"
    /\ Len(HeadsWritten) = 1
    /\ StartsWith(HeadsWritten[1].val, "HTTP/1.1 " \o resCalls[2].a \o " ")

----------------------------------------------------------------------------
(* C12: data events of several connections                                 *)

\* the chunks of one response are adjacent on socket c and the responses are
\* in the order their data events were dispatched: the numbers of the events
\* that wrote the chunks never decrease along the socket
InDispatchOrder(c) ==
    \A i, j \in 1..Len(wire[c]) : i < j => wire[c][i].id <= wire[c][j].id

\* on socket c the first chunk of each response is its head
HeadFirst(c) ==
    \A i \in 1..Len(wire[c]) :
        (i = 1 \/ wire[c][i - 1].id # wire[c][i].id)
        <=> ( /\ wire[c][i].chunk.type = "string"
              /\ StartsWith(wire[c][i].chunk.val, "HTTP/1.1 ") )

\* C12: under any interleaving of the data events of several connections, a
\* data handler runs to completion before the next one starts; on each socket
\* the head and the body of a response are adjacent, with no chunk of another
\* response between them, and the responses are in the order in which the
\* data events of the connection were dispatched.
C12_RunToCompletionAndOrder ==
    (frames # <<>> \/ dispatched > 0)
    => /\ Len(frames) <= 1
       /\ \A c \in DOMAIN wire : InDispatchOrder(c) /\ HeadFirst(c)

\* C12 witness: a connection got the head and the body of its first response
\* and then the head of its second, another connection was answered between
\* the two, and a further handler could not start while one was running
C12_Witness ==
    /\ dispatched = 3
    /\ \E c, o \in DOMAIN wire :
          /\ c # o
          /\ Len(wire[c]) >= 3
          /\ wire[c][1].id = 1
          /\ wire[c][2].id = 1
          /\ wire[c][3].id = 3
          /\ Len(wire[o]) >= 1
          /\ wire[o][1].id = 2

====
